---- MODULE Spec2Model ----
(***************************************************************************)
(* Model of the single-domain web crawler of src/src/main.rs.              *)
(*                                                                         *)
(*   Spec      - the crawl orchestration state machine (Crawler::crawl,    *)
(*               driven by main), over a set of small sites; LiveSpec is   *)
(*               Spec with main running to its end.                        *)
(*   ChunkSpec - Crawler::create_chunks, one step per iteration of its     *)
(*               loop, over a family of whitespace-normalised texts.       *)
(*   FilterSpec  - Crawler::filter_url applied to a base URL and an href,  *)
(*               and then to the URL it returned.                          *)
(*   ExtractSpec - the extraction steps of Crawler::scrape_page over small *)
(*               documents.                                                *)
(*                                                                         *)
(* Strings that the code inspects lexically (hrefs and URLs) are sequences *)
(* of lexemes: <<"/a", ".pdf", "#", "top">> stands for "/a.pdf#top".       *)
(***************************************************************************)
EXTENDS Integers, Sequences, FiniteSets, TLC

VARIABLES
    site,                  \* the web site being crawled: URL -> hrefs of its document
    max_depth,             \* main's max_depth
    pc,                    \* position of main: "start", "crawl", "done"
    visited,               \* Crawler.visited
    pages,                 \* Crawler.pages
    call,                  \* a crawl(url, depth, max_depth) invocation about to run
    stack,                 \* crawl invocations suspended in their `for link in links` loop
    requests,              \* the GET requests issued so far, in order, with their outcome
    output,                \* the CrawlOutput written by save_results
    full_text,             \* create_chunks: its argument
    chunks,                \* create_chunks: the vector being built
    current_byte_start,    \* create_chunks: the cursor
    chunk_index,           \* create_chunks: index of the next chunk id
    cpc,                   \* create_chunks: "idle", "loop", "done"
    page_url,              \* filter_url: its base URL argument
    link_href,             \* filter_url: its href argument
    canonical,             \* filter_url: what it returned
    recanonical,           \* filter_url: what it returned for the URL it had returned
    fpc,                   \* filter_url: "idle", "returned", "reapplied"
    document,              \* scrape_page: the parsed document, its nodes in document order
    main_content_element,  \* scrape_page: the node extraction starts from
    headings,              \* scrape_page: what extract_headings returned
    paragraphs,            \* scrape_page: what extract_paragraphs returned
    lists,                 \* scrape_page: what extract_lists returned
    page_text,             \* scrape_page: what build_full_text returned
    epc                    \* scrape_page: "idle", "main", "headings", "paragraphs",
                           \* "lists", "done"

crawlVars == <<site, max_depth, pc, visited, pages, call, stack, requests, output>>
chunkVars == <<full_text, chunks, current_byte_start, chunk_index, cpc>>
filterVars == <<page_url, link_href, canonical, recanonical, fpc>>
extractVars == <<document, main_content_element, headings, paragraphs, lists, page_text,
                 epc>>
vars == <<crawlVars, chunkVars, filterVars, extractVars>>

-----------------------------------------------------------------------------
(* Option<T>                                                               *)

None == [some |-> FALSE, val |-> <<>>]
Some(v) == [some |-> TRUE, val |-> v]

\* the string "" as a text (see Texts)
EmptyText == [len |-> 0, bytes |-> <<>>]

-----------------------------------------------------------------------------
(* Sequences of lexemes                                                    *)

Last(s) == s[Len(s)]

\* A value computed from an argument is written CHOOSE r \in {e(v) : v \in {arg}} : TRUE,
\* which is e(arg) with the argument bound to its value v, as a Rust call binds
\* its parameters and a Rust let its local.

\* position of the first occurrence of lexeme t in s, 0 when absent
IndexOf(s, t) ==
    CHOOSE r \in {IF \E i \in 1..Len(v) : v[i] = t
                  THEN CHOOSE i \in 1..Len(v) : v[i] = t /\ \A j \in 1..(i - 1) : v[j] # t
                  ELSE 0 : v \in {s}} : TRUE

Before(s, t) ==
    CHOOSE r \in {IF IndexOf(v, t) = 0 THEN v ELSE SubSeq(v, 1, IndexOf(v, t) - 1) :
                  v \in {s}} : TRUE
After(s, t) ==
    CHOOSE r \in {IF IndexOf(v, t) = 0 THEN <<>> ELSE SubSeq(v, IndexOf(v, t) + 1, Len(v)) :
                  v \in {s}} : TRUE

RECURSIVE SplitOn(_, _)
SplitOn(s, sep) ==
    CHOOSE r \in {IF IndexOf(v, sep) = 0 THEN <<v>>
                  ELSE <<Before(v, sep)>> \o SplitOn(After(v, sep), sep) : v \in {s}} : TRUE

RECURSIVE JoinWith(_, _)
JoinWith(parts, sep) ==
    CHOOSE r \in {IF v = <<>> THEN <<>>
                  ELSE IF Len(v) = 1 THEN v[1]
                  ELSE v[1] \o <<sep>> \o JoinWith(Tail(v), sep) : v \in {parts}} : TRUE

RECURSIVE SelectSeq2(_, _)
SelectSeq2(s, keep) ==
    CHOOSE r \in {IF v = <<>> THEN <<>>
                  ELSE (IF k[1] THEN <<v[1]>> ELSE <<>>) \o SelectSeq2(Tail(v), Tail(k)) :
                  v \in {s}, k \in {keep}} : TRUE

\* str::to_lowercase on the lexemes that have upper-case letters
LowerLexeme(t) ==
    CASE t = ".PDF" -> ".pdf"
      [] t = ".Js" -> ".js"
      [] t = "MAILTO:" -> "mailto:"
      [] t = "JavaScript:" -> "javascript:"
      [] t = "UTM_source" -> "utm_source"
      [] t = "Menu" -> "menu"
      [] t = "Cookies" -> "cookies"
      [] OTHER -> t

to_lowercase(s) == [i \in 1..Len(s) |-> LowerLexeme(s[i])]

-----------------------------------------------------------------------------
(* The url crate, as far as the crawler uses it                            *)

\* scheme-and-authority lexemes and the host each one names
HostOf ==
    [t \in {"https://www.surrey.ac.uk", "https://example.org"} |->
        IF t = "https://www.surrey.ac.uk" THEN "www.surrey.ac.uk" ELSE "example.org"]

\* schemes of URLs that have no host
HostlessSchemes == {"mailto:", "MAILTO:", "tel:", "javascript:", "JavaScript:", "data:"}

\* a lexeme no URL parser accepts (an invalid authority such as "https://[")
Malformed == {"https://["}

UrlErr == [ok |-> FALSE]

PathOf(s) == Before(Before(s, "#"), "?")
QueryOf(s) ==
    IF IndexOf(Before(s, "#"), "?") = 0 THEN None ELSE Some(After(Before(s, "#"), "?"))
FragmentOf(s) == IF IndexOf(s, "#") = 0 THEN None ELSE Some(After(s, "#"))

\* Url::parse: absolute URLs only
url_parse(s) ==
    IF s = <<>> \/ s[1] \in Malformed THEN UrlErr
    ELSE IF s[1] \in DOMAIN HostOf THEN
        [ok |-> TRUE, origin |-> s[1], host |-> Some(HostOf[s[1]]),
         path |-> IF PathOf(Tail(s)) = <<>> THEN <<"/">> ELSE PathOf(Tail(s)),
         query |-> QueryOf(Tail(s)), fragment |-> FragmentOf(Tail(s))]
    ELSE IF s[1] \in HostlessSchemes THEN
        [ok |-> TRUE, origin |-> LowerLexeme(s[1]), host |-> None,
         path |-> PathOf(Tail(s)), query |-> QueryOf(Tail(s)),
         fragment |-> FragmentOf(Tail(s))]
    ELSE UrlErr

\* Url::join: an absolute reference replaces the base, a relative one keeps the
\* base's origin, and the base's path and query where it has none of its own
url_join(base, href) ==
    IF href # <<>> /\ (href[1] \in DOMAIN HostOf \/ href[1] \in HostlessSchemes
                        \/ href[1] \in Malformed)
    THEN url_parse(href)
    ELSE IF ~base.host.some THEN UrlErr
    ELSE [ok |-> TRUE, origin |-> base.origin, host |-> base.host,
          path |-> IF PathOf(href) = <<>> THEN base.path ELSE PathOf(href),
          query |-> IF QueryOf(href).some THEN QueryOf(href)
                    ELSE IF PathOf(href) = <<>> THEN base.query ELSE None,
          fragment |-> FragmentOf(href)]

\* Url::to_string
url_to_string(u) ==
    <<u.origin>> \o u.path
        \o (IF u.query.some THEN <<"?">> \o u.query.val ELSE <<>>)
        \o (IF u.fragment.some THEN <<"#">> \o u.fragment.val ELSE <<>>)

\* form_urlencoded decoding of one lexeme: '+' is a space, "%XX" is the byte XX
DecodeLexeme(t) ==
    CASE t = "%26" -> "&"
      [] t = "%3D" -> "="
      [] t = "%20" -> " "
      [] t = "+" -> " "
      [] OTHER -> t

percent_decode(s) == [i \in 1..Len(s) |-> DecodeLexeme(s[i])]

\* Url::set_query percent-encodes the query code points (a space among them)
\* and leaves '&', '=' and '+' as they are
EncodeQueryLexeme(t) == IF t = " " THEN "%20" ELSE t

encode_query(s) == [i \in 1..Len(s) |-> EncodeQueryLexeme(s[i])]

\* Url::query_pairs: the non-empty '&'-separated pieces, each split at its first
\* '=', then decoded
query_pairs(u) ==
    IF ~u.query.some THEN <<>>
    ELSE LET pieces == SplitOn(u.query.val, "&")
         IN CHOOSE r \in
                {[i \in 1..Len(nonEmpty) |->
                     [key |-> percent_decode(Before(nonEmpty[i], "=")),
                      value |-> percent_decode(After(nonEmpty[i], "="))]] :
                 nonEmpty \in {SelectSeq2(pieces, [i \in 1..Len(pieces) |->
                                                      pieces[i] # <<>>])}} : TRUE

-----------------------------------------------------------------------------
(* main's configuration and Crawler::new                                   *)

root_url == <<"https://www.surrey.ac.uk", "/open-days">>

\* Crawler::new: the host of the root URL, "" when it has none
domain == IF url_parse(root_url).ok /\ url_parse(root_url).host.some
          THEN url_parse(root_url).host.val ELSE ""

\* largest max_depth a run is started with
MaxDepth == 3

-----------------------------------------------------------------------------
(* Crawler::filter_url                                                     *)

banned_extensions ==
    {".pdf", ".jpg", ".jpeg", ".png", ".gif", ".zip", ".doc", ".docx", ".xls", ".xlsx",
     ".ppt", ".pptx", ".mp3", ".mp4", ".avi", ".mov", ".xml", ".css", ".js", ".svg",
     ".webp", ".woff", ".woff2", ".ttf", ".eot", ".ics"}

banned_starts_patterns == {"#", "mailto:", "tel:", "javascript:", "data:"}

\* the bug of testing the end of the href only
HasBannedExtensionAtEndOnly(lower_href) ==
    lower_href # <<>> /\ Last(lower_href) \in banned_extensions

\* lower_href.ends_with(ext) || lower_href.contains(ext + "?")
HasBannedExtension(lower_href) ==
    \/ lower_href # <<>> /\ Last(lower_href) \in banned_extensions
    \/ \E i \in 1..(Len(lower_href) - 1) :
          lower_href[i] \in banned_extensions /\ lower_href[i + 1] = "?"

\* key.starts_with("utm_") || key == "fbclid" || key == "gclid"
IsTrackingKey(key) ==
    \/ key # <<>> /\ key[1] \in {"utm_source", "utm_campaign", "utm_medium"}
    \/ key = <<"fbclid">>
    \/ key = <<"gclid">>

\* the query rebuilt from the pairs that are kept: "k=v" joined by '&', as
\* set_query stores it
FilteredQuery(u) ==
    LET pairs == query_pairs(u)
    IN CHOOSE r \in
           {IF kept = <<>> THEN None
            ELSE Some(encode_query(JoinWith([i \in 1..Len(kept) |->
                                      kept[i].key \o <<"=">> \o kept[i].value], "&"))) :
            kept \in {SelectSeq2(pairs, [i \in 1..Len(pairs) |->
                                            ~IsTrackingKey(pairs[i].key)])}} : TRUE

filter_url(base_url_str, href) ==
    CHOOSE r \in
        {IF HasBannedExtension(lower_href) THEN None
         ELSE IF lower_href # <<>> /\ lower_href[1] \in banned_starts_patterns THEN None
         ELSE IF href = <<"/cookies">> \/ href = <<"/cookie-policy">> THEN None
         ELSE IF ~base_url.ok THEN None
         ELSE CHOOSE joined \in
                  {IF ~full_url.ok THEN None
                   ELSE IF full_url.host # Some(domain) THEN None
                   ELSE Some(url_to_string([full_url EXCEPT
                                               !.fragment = None,
                                               !.query = FilteredQuery(full_url)])) :
                   full_url \in {url_join(base_url, href)}} : TRUE :
         lower_href \in {to_lowercase(href)},
         base_url \in {url_parse(base_url_str)}} : TRUE

-----------------------------------------------------------------------------
(* Crawler::extract_links                                                  *)

LinkTypeOf(base, href_attr) ==
    IF href_attr[1] = "#" THEN "Anchor"
    ELSE IF url_join(base, href_attr).ok
            /\ url_join(base, href_attr).host = Some(domain)
         THEN "Internal"
         ELSE "External"

\* one LinkData per a[href] whose href is not empty, in document order
extract_links(hrefs, base_url_str) ==
    LET base == url_parse(base_url_str)
        present == SelectSeq2(hrefs, [i \in 1..Len(hrefs) |-> hrefs[i] # <<>>])
    IN [i \in 1..Len(present) |->
           [href |-> present[i], link_type |-> LinkTypeOf(base, present[i])]]

-----------------------------------------------------------------------------
(* The sites crawled: for each URL that serves a document, the href          *)
(* attributes of its anchors in document order. Any other URL serves a      *)
(* document without anchors.                                                *)

U(path) == <<"https://www.surrey.ac.uk">> \o path

\* mixed link kinds; /b is linked from /a before the root links to it
SiteMixed ==
    (root_url :> << <<"#", "top">>, <<"/a">>, <<"https://example.org", "/x">>,
                    <<"/doc", ".PDF">>, <<"/b", "#", "top">>, <<"MAILTO:", "x">> >>)
    @@ (U(<<"/a">>) :> << <<"/b", "?", "utm_source", "=", "x">>, <<"/open-days">>,
                          <<"/c">> >>)
    @@ (U(<<"/b">>) :> << <<"/c">>, <<"/a">> >>)
    @@ (U(<<"/c">>) :> << <<"/a">>, <<>>, <<"https://[">> >>)

\* self links, repeated links and a cycle through the root
SiteCycle ==
    (root_url :> << <<"/open-days">>, <<"/a">>, <<"/a">>, <<"/cookies">> >>)
    @@ (U(<<"/a">>) :> << <<"/a", "#", "x">>, <<"/b">>,
                          <<"https://www.surrey.ac.uk", "/c", "?", "id", "=", "1">> >>)
    @@ (U(<<"/b">>) :> << <<"/open-days", "?", "utm_campaign", "=", "y">>, <<"/a">> >>)
    @@ (U(<<"/c", "?", "id", "=", "1">>) :> << <<"?", "page", "=", "2">>, <<"/b">> >>)

\* a tree: the root links to three pages, two of which link to a fourth
SiteTree ==
    (root_url :> << <<"/a">>, <<"/b">>, <<"/c">> >>)
    @@ (U(<<"/a">>) :> << <<"/d">> >>)
    @@ (U(<<"/b">>) :> << <<"/d">>, <<"/e", ".js", "?", "v", "=", "2">>, <<"/c">> >>)
    @@ (U(<<"/c">>) :> << <<"/b">>, <<"/f">> >>)
    @@ (U(<<"/d">>) :> << <<"/b">> >>)

\* links to one page that differ in their query: with an encoded '&' and '='
\* in a value, without it, and with a tracking parameter
SiteQueries ==
    (root_url :> << <<"/a", "?", "q", "=", "x", "%26", "utm_source", "%3D", "y">>,
                    <<"/a", "?", "q", "=", "x">>,
                    <<"/a", "?", "utm_source", "=", "y", "&", "q", "=", "x">>,
                    <<"/a", "?", "q", "=", "x", "#", "top">> >>)
    @@ (U(<<"/a", "?", "q", "=", "x">>) :> << <<"/open-days", "?", "gclid", "=", "1">>,
                                              <<"/a">> >>)

Sites == {SiteMixed, SiteCycle, SiteTree, SiteQueries}

DocumentHrefs(s, url) == IF url \in DOMAIN s THEN s[url] ELSE <<>>

\* what extraction can find in a document: nothing, body text only, a paragraph
\* only, a heading only
NoContent == [full_text |-> "", headings |-> <<>>, paragraphs |-> <<>>]
Contents ==
    {NoContent,
     [full_text |-> "Open days", headings |-> <<>>, paragraphs |-> <<>>],
     [full_text |-> "", headings |-> <<>>, paragraphs |-> <<"Open days">>],
     [full_text |-> "", headings |-> <<"Open days">>, paragraphs |-> <<>>]}

-----------------------------------------------------------------------------
(* Crawler::crawl                                                          *)

\* the bug of testing depth > max_depth
ReturnsAtOnceOffByOne(url, depth) == depth > max_depth \/ url \in visited

\* the bug of not testing the depth
ReturnsAtOnceVisitedOnly(url, depth) == url \in visited

\* line 150: the call returns at once
ReturnsAtOnce(url, depth) == depth >= max_depth \/ url \in visited

\* the bug of never recording the URL
MarkVisitedForgotten(url) == visited' = visited

\* line 154
MarkVisited(url) == visited' = visited \cup {url}

\* the bug of a missing negation in the first test
HasContentNegationLost(content) ==
    \/ content.full_text = ""
    \/ content.paragraphs # <<>>
    \/ content.headings # <<>>

\* lines 159-161: the page is kept
HasContent(content) ==
    \/ content.full_text # ""
    \/ content.paragraphs # <<>>
    \/ content.headings # <<>>

\* scrape_page's result for a document with this content and these anchors
PageData(url, depth, content, hrefs) ==
    [url |-> url, title |-> "Untitled", content |-> content,
     metadata |-> [depth |-> depth, description |-> None],
     links |-> extract_links(hrefs, url)]

\* lines 180-190: the record pushed when scrape_page fails
FailedPage(url, depth) ==
    [url |-> url, title |-> "Failed to crawl", content |-> NoContent,
     metadata |-> [depth |-> depth, description |-> Some("Error")],
     links |-> <<>>]

\* the bug of recursing on the resolved link instead of the filtered one
CallForUnfiltered(frame, link) ==
    LET resolved == url_join(url_parse(frame.url), link.href)
    IN IF link.link_type = "Internal" /\ url_to_string(resolved) \notin visited
       THEN Some([url |-> url_to_string(resolved), depth |-> frame.depth + 1,
                  from |-> frame.url])
       ELSE None

\* the bug of passing the depth on unchanged
CallForSameDepth(frame, link) ==
    LET filtered_url == IF link.link_type = "Internal"
                        THEN filter_url(frame.url, link.href) ELSE None
    IN IF filtered_url.some /\ filtered_url.val \notin visited
       THEN Some([url |-> filtered_url.val, depth |-> frame.depth, from |-> frame.url])
       ELSE None

\* lines 166-170: the recursive call the loop makes for a link, if any
CallFor(frame, link) ==
    LET filtered_url == IF link.link_type = "Internal"
                        THEN filter_url(frame.url, link.href) ELSE None
    IN IF filtered_url.some /\ filtered_url.val \notin visited
       THEN Some([url |-> filtered_url.val, depth |-> frame.depth + 1,
                  from |-> frame.url])
       ELSE None

\* the bug of a frontier served oldest first
RunningOldest(stk) == stk[1]

\* the invocation whose loop is running: the innermost one
Running(stk) == stk[Len(stk)]

\* would expanding a page with these links lead to a fetch
Expandable(url, depth, links) ==
    /\ depth + 1 < max_depth
    /\ \E i \in 1..Len(links) :
          /\ links[i].link_type = "Internal"
          /\ filter_url(url, links[i].href).some
          /\ filter_url(url, links[i].href).val \notin (visited \cup {url})

Request(c, result, links) ==
    [url |-> c.url, depth |-> c.depth, from |-> c.from, result |-> result,
     expandable |-> Expandable(c.url, c.depth, links)]

\* main, line 654
Main ==
    /\ pc = "start"
    /\ pc' = "crawl"
    /\ call' = Some([url |-> root_url, depth |-> 0, from |-> <<>>])
    /\ UNCHANGED <<site, max_depth, visited, pages, stack, requests, output, chunkVars, filterVars, extractVars>>

\* lines 150-152
CrawlReturnAtOnce ==
    /\ call.some
    /\ ReturnsAtOnce(call.val.url, call.val.depth)
    /\ call' = None
    /\ UNCHANGED <<site, max_depth, pc, visited, pages, stack, requests, output, chunkVars, filterVars, extractVars>>

\* the bug of letting the error end the crawl
CrawlFetchFailedAborts ==
    /\ call.some
    /\ ~ReturnsAtOnce(call.val.url, call.val.depth)
    /\ MarkVisited(call.val.url)
    /\ requests' = Append(requests, Request(call.val, "err", <<>>))
    /\ call' = None
    /\ stack' = <<>>
    /\ UNCHANGED <<site, max_depth, pc, pages, output, chunkVars, filterVars, extractVars>>

\* lines 154-157 and 178-191: the fetch fails
CrawlFetchFailed ==
    /\ call.some
    /\ ~ReturnsAtOnce(call.val.url, call.val.depth)
    /\ MarkVisited(call.val.url)
    /\ requests' = Append(requests, Request(call.val, "err", <<>>))
    /\ pages' = Append(pages, FailedPage(call.val.url, call.val.depth))
    /\ call' = None
    /\ UNCHANGED <<site, max_depth, pc, stack, output, chunkVars, filterVars, extractVars>>

\* the bug of expanding the links of a page that is dropped
CrawlPageSkippedExpands ==
    /\ call.some
    /\ ~ReturnsAtOnce(call.val.url, call.val.depth)
    /\ \E content \in Contents :
          LET page_data == PageData(call.val.url, call.val.depth, content,
                                    DocumentHrefs(site, call.val.url))
          IN /\ ~HasContent(page_data.content)
             /\ requests' = Append(requests, Request(call.val, "empty", page_data.links))
             /\ stack' = Append(stack, [url |-> call.val.url, depth |-> call.val.depth,
                                        links |-> page_data.links, i |-> 1])
    /\ MarkVisited(call.val.url)
    /\ call' = None
    /\ UNCHANGED <<site, max_depth, pc, pages, output, chunkVars, filterVars, extractVars>>

\* lines 154-161 and 174-176: the page has no content and is dropped
CrawlPageSkipped ==
    /\ call.some
    /\ ~ReturnsAtOnce(call.val.url, call.val.depth)
    /\ \E content \in Contents :
          LET page_data == PageData(call.val.url, call.val.depth, content,
                                    DocumentHrefs(site, call.val.url))
          IN /\ ~HasContent(page_data.content)
             /\ requests' = Append(requests, Request(call.val, "empty", page_data.links))
    /\ MarkVisited(call.val.url)
    /\ call' = None
    /\ UNCHANGED <<site, max_depth, pc, pages, stack, output, chunkVars, filterVars, extractVars>>

\* lines 154-163: the page is kept and its link loop starts
CrawlPageKept ==
    /\ call.some
    /\ ~ReturnsAtOnce(call.val.url, call.val.depth)
    /\ \E content \in Contents :
          LET page_data == PageData(call.val.url, call.val.depth, content,
                                    DocumentHrefs(site, call.val.url))
          IN /\ HasContent(page_data.content)
             /\ requests' = Append(requests, Request(call.val, "kept", page_data.links))
             /\ pages' = Append(pages, page_data)
             /\ stack' = Append(stack, [url |-> call.val.url, depth |-> call.val.depth,
                                        links |-> page_data.links, i |-> 1])
    /\ MarkVisited(call.val.url)
    /\ call' = None
    /\ UNCHANGED <<site, max_depth, pc, output, chunkVars, filterVars, extractVars>>

\* lines 165-173: one iteration of the link loop of the running invocation
CrawlNextLink ==
    /\ ~call.some
    /\ stack # <<>>
    /\ LET frame == Running(stack)
       IN /\ frame.i <= Len(frame.links)
          /\ call' = CallFor(frame, frame.links[frame.i])
          /\ stack' = [k \in 1..Len(stack) |->
                          IF stack[k] = frame THEN [frame EXCEPT !.i = frame.i + 1]
                          ELSE stack[k]]
    /\ UNCHANGED <<site, max_depth, pc, visited, pages, requests, output, chunkVars, filterVars, extractVars>>

\* line 173: the loop is over and the invocation returns
CrawlReturn ==
    /\ ~call.some
    /\ stack # <<>>
    /\ Running(stack).i > Len(Running(stack).links)
    /\ stack' = SelectSeq2(stack, [k \in 1..Len(stack) |-> stack[k] # Running(stack)])
    /\ UNCHANGED <<site, max_depth, pc, visited, pages, call, requests, output, chunkVars, filterVars, extractVars>>

\* the bug of counting the fetches instead of the records
SaveResultsCountsFetches ==
    /\ pc = "crawl"
    /\ ~call.some
    /\ stack = <<>>
    /\ pc' = "done"
    /\ output' = Some([domain |-> domain, root_url |-> root_url,
                       total_pages |-> Len(requests), pages |-> pages])
    /\ UNCHANGED <<site, max_depth, visited, pages, call, stack, requests, chunkVars, filterVars, extractVars>>

\* Crawler::save_results, called by main once crawl has returned
SaveResults ==
    /\ pc = "crawl"
    /\ ~call.some
    /\ stack = <<>>
    /\ pc' = "done"
    /\ output' = Some([domain |-> domain, root_url |-> root_url,
                       total_pages |-> Len(pages), pages |-> pages])
    /\ UNCHANGED <<site, max_depth, visited, pages, call, stack, requests, chunkVars, filterVars, extractVars>>

ChunkIdle ==
    /\ full_text = EmptyText
    /\ chunks = <<>>
    /\ current_byte_start = 0
    /\ chunk_index = 0
    /\ cpc = "idle"

FilterIdle ==
    /\ page_url = <<>>
    /\ link_href = <<>>
    /\ canonical = None
    /\ recanonical = None
    /\ fpc = "idle"

ExtractIdle ==
    /\ document = <<>>
    /\ main_content_element = 0
    /\ headings = <<>>
    /\ paragraphs = <<>>
    /\ lists = <<>>
    /\ page_text = <<>>
    /\ epc = "idle"

Init ==
    /\ site \in Sites
    /\ max_depth \in 0..MaxDepth
    /\ pc = "start"
    /\ visited = {}
    /\ pages = <<>>
    /\ call = None
    /\ stack = <<>>
    /\ requests = <<>>
    /\ output = None
    /\ ChunkIdle
    /\ FilterIdle
    /\ ExtractIdle

Next ==
    \/ Main
    \/ CrawlReturnAtOnce
    \/ CrawlFetchFailed
    \/ CrawlPageSkipped
    \/ CrawlPageKept
    \/ CrawlNextLink
    \/ CrawlReturn
    \/ SaveResults

Spec == Init /\ [][Next]_vars

\* main runs without suspension: a fetch completes or fails within its timeout
LiveSpec == Spec /\ WF_vars(Next)

-----------------------------------------------------------------------------
(* Texts. A text is its length in bytes and the bytes that are not plain    *)
(* ASCII letters ("x"), by 0-based offset: "." a full stop, " " a space,    *)
(* "L" the first byte of a three-byte character and "c" a continuation      *)
(* byte. EmptyText, above, is the text "".                                  *)

ByteAt(t, i) == IF i \in DOMAIN t.bytes THEN t.bytes[i] ELSE "x"

\* a run of special bytes placed at an offset
RunBytes(kind) ==
    CASE kind = "sentence" -> <<".", " ">>
      [] kind = "wide" -> <<"L", "c", "c">>
      [] kind = "space" -> <<" ">>

RunSpan(r) == r.at..(r.at + Len(RunBytes(r.kind)) - 1)

TextOf(len, runs) ==
    [len |-> len,
     bytes |-> [p \in UNION {RunSpan(r) : r \in runs} |->
                   LET r == CHOOSE q \in runs : p \in RunSpan(q)
                   IN RunBytes(r.kind)[p - r.at + 1]]]

\* build_full_text, lines 314-318: the text is made of words joined by single
\* spaces, so it neither starts nor ends with a space and has no two in a row
IsNormalised(t) ==
    /\ \A p \in DOMAIN t.bytes : p < t.len
    /\ t.len > 0 => ByteAt(t, 0) # " " /\ ByteAt(t, t.len - 1) # " "
    /\ \A p \in DOMAIN t.bytes : ~(ByteAt(t, p) = " " /\ ByteAt(t, p + 1) = " ")

CHUNK_SIZE == 1000
OVERLAP == 200
SENTENCE_WINDOW == 100

\* number of runs of special bytes in a text
MaxRuns == 2

\* offsets of the runs: near the start, and at and just before the first
\* chunk's overlap point, size and sentence window
RunOffsets ==
    {3} \cup {k - d : k \in {CHUNK_SIZE - OVERLAP, CHUNK_SIZE,
                             CHUNK_SIZE + SENTENCE_WINDOW},
                      d \in {0, 1, 2}}

Runs == {[at |-> a, kind |-> k] : a \in RunOffsets, k \in {"sentence", "wide", "space"}}

RECURSIVE RunSets(_)
RunSets(n) ==
    IF n = 0 THEN {{}}
    ELSE RunSets(n - 1) \cup {rs \cup {r} : rs \in RunSets(n - 1), r \in Runs}

Disjoint(runs) ==
    \A r, q \in runs : r # q => RunSpan(r) \cap RunSpan(q) = {}

\* lengths of the texts: tiny, and around the overlap, the chunk size, the
\* sentence window, and 2200
TextLengths ==
    {0, 1, 5} \cup {k + d : k \in {OVERLAP, CHUNK_SIZE, CHUNK_SIZE + SENTENCE_WINDOW,
                                   CHUNK_SIZE + OVERLAP, 2200},
                            d \in {-1, 0, 1}}

Texts ==
    {t \in {TextOf(len, runs) : len \in TextLengths,
                                runs \in {rs \in RunSets(MaxRuns) : Disjoint(rs)}} :
        IsNormalised(t)}

-----------------------------------------------------------------------------
(* Crawler::create_chunks                                                  *)

Min(a, b) == IF a <= b THEN a ELSE b

\* str::is_char_boundary
is_char_boundary(t, i) ==
    i = 0 \/ i = t.len \/ (i < t.len /\ ByteAt(t, i) # "c")

\* the bug of using an offset without moving it to a character boundary
NextBoundaryNotSought(t, i) == i

\* while i < len && !is_char_boundary(i) { i += 1 }
RECURSIVE NextBoundary(_, _)
NextBoundary(t, i) ==
    IF i < t.len /\ ~is_char_boundary(t, i) THEN NextBoundary(t, i + 1) ELSE i

\* the bug of str::find for str::rfind: the first ". " of the slice
find_sentence(t, from, to) ==
    LET hits == {p \in DOMAIN t.bytes :
                    /\ from <= p
                    /\ p + 2 <= to
                    /\ ByteAt(t, p) = "."
                    /\ ByteAt(t, p + 1) = " "}
    IN IF hits = {} THEN None
       ELSE Some((CHOOSE p \in hits : \A q \in hits : p <= q) - from)

\* text[from..to].rfind(". "): offset in the slice of the last ". " that lies
\* in it
rfind_sentence(t, from, to) ==
    LET hits == {p \in DOMAIN t.bytes :
                    /\ from <= p
                    /\ p + 2 <= to
                    /\ ByteAt(t, p) = "."
                    /\ ByteAt(t, p + 1) = " "}
    IN IF hits = {} THEN None
       ELSE Some((CHOOSE p \in hits : \A q \in hits : q <= p) - from)

\* str::trim on text[from..to]: the offsets of what is left
RECURSIVE TrimStart(_, _, _)
TrimStart(t, from, to) ==
    IF from < to /\ ByteAt(t, from) = " " THEN TrimStart(t, from + 1, to) ELSE from

RECURSIVE TrimEnd(_, _, _)
TrimEnd(t, from, to) ==
    IF from < to /\ ByteAt(t, to - 1) = " " THEN TrimEnd(t, from, to - 1) ELSE to

Trim(t, from, to) ==
    [from |-> TrimStart(t, from, to), to |-> TrimEnd(t, TrimStart(t, from, to), to)]

\* lines 504-517
TargetEnd(t, start) ==
    LET target_end_byte == NextBoundary(t, Min(start + CHUNK_SIZE, t.len))
    IN Min(IF target_end_byte <= start /\ start < t.len
           THEN NextBoundary(t, start + 1)
           ELSE target_end_byte,
           t.len)

\* lines 526-529
SentenceSearchLimit(t, target_end_byte) ==
    NextBoundary(t, Min(target_end_byte + SENTENCE_WINDOW, t.len))

\* lines 523-542
SentenceEnd(t, start, target_end_byte) ==
    IF target_end_byte < t.len
    THEN LET sentence_search_limit == SentenceSearchLimit(t, target_end_byte)
             pos == rfind_sentence(t, start, sentence_search_limit)
             sentence_end_abs_byte == start + pos.val + 2
         IN IF /\ sentence_search_limit > start
               /\ pos.some
               /\ sentence_end_abs_byte > start
               /\ sentence_end_abs_byte <= sentence_search_limit
               /\ is_char_boundary(t, sentence_end_abs_byte)
            THEN sentence_end_abs_byte
            ELSE target_end_byte
    ELSE target_end_byte

\* lines 523-549
ChunkEnd(t, start, target_end_byte) ==
    LET chunk_to_slice_end_byte == SentenceEnd(t, start, target_end_byte)
    IN IF chunk_to_slice_end_byte <= start THEN target_end_byte
       ELSE chunk_to_slice_end_byte

\* the bug of keeping the cursor where it is when the overlap would move it back
NextStartNoProgress(start, chunk_end) ==
    LET next_start_byte_candidate == IF chunk_end >= OVERLAP THEN chunk_end - OVERLAP
                                     ELSE 0
    IN IF next_start_byte_candidate > start THEN Some(next_start_byte_candidate)
       ELSE Some(start)

\* the bug of always stepping back by the overlap
NextStartRegresses(start, chunk_end) ==
    Some(IF chunk_end >= OVERLAP THEN chunk_end - OVERLAP ELSE 0)

\* the bug of starting one past the chunk end when the overlap cannot be kept
NextStartSkips(start, chunk_end) ==
    LET next_start_byte_candidate == IF chunk_end >= OVERLAP THEN chunk_end - OVERLAP
                                     ELSE 0
    IN IF next_start_byte_candidate <= start /\ chunk_end > start
       THEN Some(chunk_end + 1)
       ELSE IF next_start_byte_candidate > start THEN Some(next_start_byte_candidate)
       ELSE None

\* the bug of stopping when the overlap would not move the cursor
NextStartStops(start, chunk_end) ==
    LET next_start_byte_candidate == IF chunk_end >= OVERLAP THEN chunk_end - OVERLAP
                                     ELSE 0
    IN IF next_start_byte_candidate > start THEN Some(next_start_byte_candidate)
       ELSE None

\* lines 565-573: where the next chunk starts, none when the loop breaks
NextStart(start, chunk_end) ==
    LET next_start_byte_candidate == IF chunk_end >= OVERLAP THEN chunk_end - OVERLAP
                                     ELSE 0
    IN IF next_start_byte_candidate <= start /\ chunk_end > start THEN Some(chunk_end)
       ELSE IF next_start_byte_candidate > start THEN Some(next_start_byte_candidate)
       ELSE None

\* lines 555-561
TextChunk(t, index, start, end) ==
    [chunk_id |-> <<"url", "#chunk", index>>, text |-> Trim(t, start, end),
     char_start |-> start, char_end |-> end]

\* lines 486-493
CreateChunks ==
    /\ cpc = "idle"
    /\ chunks' = <<>>
    /\ current_byte_start' = 0
    /\ chunk_index' = 0
    /\ cpc' = IF full_text.len = 0 THEN "done" ELSE "loop"
    /\ UNCHANGED <<full_text, crawlVars, filterVars, extractVars>>

\* lines 496-502: the cursor has reached the end of the text
ChunkLoopExit ==
    /\ cpc = "loop"
    /\ NextBoundary(full_text, current_byte_start) >= full_text.len
    /\ current_byte_start' = NextBoundary(full_text, current_byte_start)
    /\ cpc' = "done"
    /\ UNCHANGED <<full_text, chunks, chunk_index, crawlVars, filterVars, extractVars>>

\* lines 496-573: one iteration that gets past line 502
ChunkLoopBody ==
    /\ cpc = "loop"
    /\ \E start \in {NextBoundary(full_text, current_byte_start)} :
       \E target_end_byte \in {TargetEnd(full_text, start)} :
       \E chunk_end \in {ChunkEnd(full_text, start, target_end_byte)} :
       \E trimmed \in {Trim(full_text, start, chunk_end)} :
       \E next \in {NextStart(start, chunk_end)} :
          /\ start < full_text.len
          /\ IF target_end_byte <= start \/ chunk_end <= start
             THEN /\ cpc' = "done"
                  /\ current_byte_start' = start
                  /\ UNCHANGED <<chunks, chunk_index>>
             ELSE /\ IF trimmed.from < trimmed.to
                     THEN /\ chunks' = Append(chunks,
                                 TextChunk(full_text, chunk_index, start, chunk_end))
                          /\ chunk_index' = chunk_index + 1
                     ELSE UNCHANGED <<chunks, chunk_index>>
                  /\ current_byte_start' = IF next.some THEN next.val ELSE start
                  /\ cpc' = IF next.some THEN "loop" ELSE "done"
    /\ UNCHANGED <<full_text, crawlVars, filterVars, extractVars>>

CrawlIdle ==
    /\ site = SiteTree
    /\ max_depth = 0
    /\ pc = "done"
    /\ visited = {}
    /\ pages = <<>>
    /\ call = None
    /\ stack = <<>>
    /\ requests = <<>>
    /\ output = None

ChunkInit ==
    /\ full_text \in Texts
    /\ chunks = <<>>
    /\ current_byte_start = 0
    /\ chunk_index = 0
    /\ cpc = "idle"
    /\ CrawlIdle
    /\ FilterIdle
    /\ ExtractIdle

ChunkNext ==
    \/ CreateChunks
    \/ ChunkLoopExit
    \/ ChunkLoopBody

ChunkSpec == ChunkInit /\ [][ChunkNext]_vars

\* the loop of create_chunks runs without suspension until it breaks
ChunkLiveSpec == ChunkSpec /\ WF_vars(ChunkNext)

-----------------------------------------------------------------------------
(* Crawler::filter_url applied to a base URL and an href, and then to the   *)
(* URL it returned                                                          *)

\* largest number of '&'-separated pieces in the query of an href
MaxParams == 2

\* the pieces a query is made of
QueryPieces ==
    {<<"id", "=", "1">>, <<"utm_source", "=", "x">>, <<"UTM_source", "=", "x">>,
     <<"gclid", "=", "1">>, <<"flag">>, <<"q", "=", "a", "%26", "b", "%3D", "c">>,
     <<"q", "=", "a", "+", "b">>, <<"file", "=", "cv", ".PDF">>}

RECURSIVE Queries(_)
Queries(n) ==
    IF n = 0 THEN {<<>>}
    ELSE Queries(n - 1)
           \cup {q \o <<"&">> \o p : q \in Queries(n - 1) \ {<<>>}, p \in QueryPieces}
           \cup QueryPieces

\* how an href starts: relative to the base, or with a scheme
HrefOrigins ==
    {<<>>, <<"https://www.surrey.ac.uk">>, <<"https://example.org">>, <<"MAILTO:">>,
     <<"https://[">>}

HrefPaths ==
    {<<>>, <<"/a">>, <<"/a", ".pdf">>, <<"/a", ".Js">>, <<"/cookies">>,
     <<"/cookie-policy">>, <<"/cookies", "/policy">>}

HrefFragments == {<<>>, <<"#", "top">>}

Hrefs ==
    {o \o p \o (IF q = <<>> THEN <<>> ELSE <<"?">> \o q) \o f :
        o \in HrefOrigins, p \in HrefPaths, q \in Queries(MaxParams), f \in HrefFragments}

\* the URLs of pages: of the crawl domain, of another one, and a string that
\* is no URL
BaseUrls ==
    {root_url, U(<<"/b", "?", "id", "=", "1">>), <<"https://example.org", "/x">>,
     <<"https://[">>}

SameDomain(b) == url_parse(b).ok /\ url_parse(b).host = Some(domain)

\* lines 578-624
FilterUrl ==
    /\ fpc = "idle"
    /\ canonical' = filter_url(page_url, link_href)
    /\ fpc' = "returned"
    /\ UNCHANGED <<page_url, link_href, recanonical, crawlVars, chunkVars, extractVars>>

\* lines 578-624, with the URL returned before as the href and a base of the
\* crawl domain
FilterUrlAgain ==
    /\ fpc = "returned"
    /\ canonical.some
    /\ \E b \in {c \in BaseUrls : SameDomain(c)} :
          /\ page_url' = b
          /\ recanonical' = filter_url(b, canonical.val)
    /\ fpc' = "reapplied"
    /\ UNCHANGED <<link_href, canonical, crawlVars, chunkVars, extractVars>>

FilterInit ==
    /\ page_url \in BaseUrls
    /\ link_href \in Hrefs
    /\ canonical = None
    /\ recanonical = None
    /\ fpc = "idle"
    /\ CrawlIdle
    /\ ChunkIdle
    /\ ExtractIdle

FilterNext ==
    \/ FilterUrl
    \/ FilterUrlAgain

FilterSpec == FilterInit /\ [][FilterNext]_vars

-----------------------------------------------------------------------------
(* Documents. A document is the sequence of its nodes in document order;    *)
(* a node has a tag ("#text" for a text node), at most one attribute that  *)
(* a selector looks at, written as the selector that matches it, the index *)
(* of its parent (0 for the root element) and, for a text node, its text   *)
(* as a sequence of lexemes in which " " is white space.                   *)

Element(tag, attr, parent) == [tag |-> tag, attr |-> attr, parent |-> parent, text |-> <<>>]
TextNode(text, parent) == [tag |-> "#text", attr |-> "", parent |-> parent, text |-> text]

IsElement(doc, i) == doc[i].tag # "#text"

\* i is a or a node below a
RECURSIVE InSubtree(_, _, _)
InSubtree(doc, a, i) ==
    i = a \/ (doc[i].parent # 0 /\ InSubtree(doc, a, doc[i].parent))

\* the nodes in document order
Nodes(doc) == [i \in 1..Len(doc) |-> i]

\* ElementRef::select: the elements below el with one of the tags, in document
\* order
select(doc, el, tags) ==
    LET Matches(i) == i # el /\ InSubtree(doc, el, i) /\ doc[i].tag \in tags
    IN SelectSeq(Nodes(doc), Matches)

\* node.children()
children(doc, el) ==
    LET IsChild(i) == doc[i].parent = el
    IN SelectSeq(Nodes(doc), IsChild)

RECURSIVE Concat(_)
Concat(seqs) == IF seqs = <<>> THEN <<>> ELSE seqs[1] \o Concat(Tail(seqs))

\* str::trim
RECURSIVE trim_start(_)
trim_start(s) == IF s # <<>> /\ s[1] = " " THEN trim_start(Tail(s)) ELSE s

RECURSIVE trim_end(_)
trim_end(s) ==
    IF s # <<>> /\ Last(s) = " " THEN trim_end(SubSeq(s, 1, Len(s) - 1)) ELSE s

trim(s) == trim_end(trim_start(s))

\* str::len, in bytes
RECURSIVE ByteLen(_)
ByteLen(s) == IF s = <<>> THEN 0 ELSE Len(s[1]) + ByteLen(Tail(s))

\* str::split_whitespace
split_whitespace(s) ==
    LET pieces == SplitOn(s, " ")
    IN SelectSeq2(pieces, [i \in 1..Len(pieces) |-> pieces[i] # <<>>])

\* str::contains, for a phrase that is one lexeme
contains(s, phrase) == \E i \in 1..Len(s) : s[i] = phrase

\* el.text().collect::<String>()
text(doc, el) ==
    LET IsText(i) == i # el /\ InSubtree(doc, el, i) /\ ~IsElement(doc, i)
        nodes == SelectSeq(Nodes(doc), IsText)
    IN Concat([k \in 1..Len(nodes) |-> doc[nodes[k]].text])

\* el.select("a").flat_map(|a| a.text()).map(|t| t.len()).sum()
link_text_len(doc, el) ==
    LET links == select(doc, el, {"a"})
    IN ByteLen(Concat([k \in 1..Len(links) |-> text(doc, links[k])]))

-----------------------------------------------------------------------------
(* Selectors                                                               *)

main_content ==
    << [tags |-> {"main"}, attrs |-> {}],
       [tags |-> {}, attrs |-> {"[role='main']"}],
       [tags |-> {}, attrs |-> {"#main-content"}],
       [tags |-> {}, attrs |-> {"#content"}],
       [tags |-> {}, attrs |-> {".main-content"}],
       [tags |-> {}, attrs |-> {".content"}],
       [tags |-> {"article"}, attrs |-> {}] >>

boilerplate_tags == {"header", "footer", "nav", "aside"}
boilerplate_attrs == {".cookie-banner", "#cookie-consent", ".sidebar"}
boilerplate_div_attrs ==
    {".secondary-navigation", ".global-main-menu", ".footer-menu", "#onetrust-consent-sdk"}

always_remove_tags ==
    {"script", "style", "noscript", "svg", "path", "button", "form", "input", "textarea",
     "select", "option"}
always_remove_attrs == {".visually-hidden", "[aria-hidden='true']"}

cookie_banner_text ==
    {"cookies we use cookies to help our site work",
     "by accepting, you agree to cookies being stored",
     "manage settings accept"}

common_boilerplate_headings ==
    {"navigation", "menu", "footer", "cookies", "search results", "search"}

\* selectors.boilerplate.iter().any(|s| s.matches(&el))
MatchesBoilerplate(doc, el) ==
    \/ doc[el].tag \in boilerplate_tags
    \/ doc[el].attr \in boilerplate_attrs
    \/ doc[el].tag = "div" /\ doc[el].attr \in boilerplate_div_attrs

\* selectors.always_remove.matches(&el)
MatchesAlwaysRemove(doc, el) ==
    \/ doc[el].tag \in always_remove_tags
    \/ doc[el].attr \in always_remove_attrs
    \/ /\ doc[el].tag = "figcaption"
       /\ doc[el].parent # 0
       /\ doc[doc[el].parent].tag = "figure"

\* json_like_pattern.is_match
is_json_like(s) ==
    /\ s # <<>>
    /\ \/ s[1] = "{" /\ Last(s) = "}"
       \/ s[1] = "[" /\ Last(s) = "]"

-----------------------------------------------------------------------------
(* Crawler::find_main_content_element, is_skippable and the extractors      *)

\* the first element in document order that a selector of main_content
\* matches, for the first selector that matches any, and the root otherwise
RECURSIVE FirstMainContent(_, _)
FirstMainContent(doc, k) ==
    IF k > Len(main_content) THEN 1
    ELSE LET found == {i \in 1..Len(doc) :
                          /\ IsElement(doc, i)
                          /\ \/ doc[i].tag \in main_content[k].tags
                             \/ doc[i].attr \in main_content[k].attrs}
         IN IF found = {} THEN FirstMainContent(doc, k + 1)
            ELSE CHOOSE i \in found : \A j \in found : i <= j

find_main_content_element(doc) == FirstMainContent(doc, 1)

is_skippable(doc, el) ==
    \/ MatchesAlwaysRemove(doc, el)
    \/ \E a \in 1..Len(doc) : InSubtree(doc, a, el) /\ MatchesBoilerplate(doc, a)

\* the text nodes that build_full_text keeps
KeepsText(original_text_trimmed) ==
    LET processed_text_lower == to_lowercase(original_text_trimmed)
    IN /\ original_text_trimmed # <<>>
       /\ \A p \in cookie_banner_text : ~contains(processed_text_lower, p)
       /\ ~is_json_like(original_text_trimmed)
       /\ ~contains(processed_text_lower, "permissionshash")

MAX_TEXT_DEPTH == 50

RECURSIVE extract_text_recursively(_, _, _)
extract_text_recursively(doc, element, depth) ==
    IF depth > MAX_TEXT_DEPTH \/ MatchesAlwaysRemove(doc, element) THEN <<>>
    ELSE IF depth > 0 /\ MatchesBoilerplate(doc, element) THEN <<>>
    ELSE LET nodes == children(doc, element)
         IN Concat([k \in 1..Len(nodes) |->
                IF IsElement(doc, nodes[k])
                THEN extract_text_recursively(doc, nodes[k], depth + 1)
                ELSE IF KeepsText(trim(doc[nodes[k]].text))
                     THEN <<trim(doc[nodes[k]].text)>>
                     ELSE <<>>])

build_full_text(doc, main) ==
    JoinWith(split_whitespace(JoinWith(extract_text_recursively(doc, main, 0), " ")), " ")

\* lines 348-364: the heading elements that extract_headings keeps
HeadingKept(doc, element) ==
    LET heading_text == trim(text(doc, element))
        lower_text == to_lowercase(heading_text)
    IN /\ ~is_skippable(doc, element)
       /\ heading_text # <<>>
       /\ \A w \in common_boilerplate_headings : ~contains(lower_text, w)
       /\ ~(/\ link_text_len(doc, element) > ByteLen(heading_text) \div 2
            /\ Len(split_whitespace(heading_text)) < 5)

\* lines 347-383 for the elements left of one level, with the headings pushed
\* so far and last_h1 and last_h2
RECURSIVE HeadingsOfLevel(_, _, _, _)
HeadingsOfLevel(doc, level, elements, acc) ==
    IF elements = <<>> THEN acc
    ELSE IF ~HeadingKept(doc, elements[1])
         THEN HeadingsOfLevel(doc, level, Tail(elements), acc)
    ELSE LET heading_text == trim(text(doc, elements[1]))
             parent_heading == IF level = 2 THEN acc.last_h1
                               ELSE IF level >= 3 THEN acc.last_h2
                               ELSE None
         IN HeadingsOfLevel(doc, level, Tail(elements),
                [headings_data |-> Append(acc.headings_data,
                                      [level |-> level, text |-> heading_text,
                                       parent_heading |-> parent_heading]),
                 last_h1 |-> IF level = 1 THEN Some(heading_text) ELSE acc.last_h1,
                 last_h2 |-> IF level = 2 THEN Some(heading_text) ELSE acc.last_h2])

HeadingTag(level) ==
    CASE level = 1 -> "h1" [] level = 2 -> "h2" [] level = 3 -> "h3"
      [] level = 4 -> "h4" [] level = 5 -> "h5" [] level = 6 -> "h6"

\* for level in 1..=6
RECURSIVE HeadingsFromLevel(_, _, _, _)
HeadingsFromLevel(doc, main, level, acc) ==
    IF level > 6 THEN acc
    ELSE HeadingsFromLevel(doc, main, level + 1,
             HeadingsOfLevel(doc, level, select(doc, main, {HeadingTag(level)}), acc))

extract_headings(doc, main) ==
    HeadingsFromLevel(doc, main, 1,
        [headings_data |-> <<>>, last_h1 |-> None, last_h2 |-> None]).headings_data

\* lines 393-409
ParagraphKept(doc, el) ==
    LET paragraph_text == trim(text(doc, el))
        lower_text == to_lowercase(paragraph_text)
        links == select(doc, el, {"a"})
    IN /\ ~is_skippable(doc, el)
       /\ paragraph_text # <<>>
       /\ \A p \in cookie_banner_text : ~contains(lower_text, p)
       /\ ~is_json_like(paragraph_text)
       /\ ~contains(lower_text, "permissionshash")
       /\ ~contains(lower_text, "skip to main content")
       /\ ~(/\ links # <<>>
            /\ ByteLen(paragraph_text) = ByteLen(trim(text(doc, links[1])))
            /\ Len(split_whitespace(paragraph_text)) < 7)

extract_paragraphs(doc, main) ==
    LET Kept(el) == ParagraphKept(doc, el)
        kept == SelectSeq(select(doc, main, {"p"}), Kept)
    IN [k \in 1..Len(kept) |-> trim(text(doc, kept[k]))]

\* lines 422-440
ListItemKept(doc, element) ==
    LET item_text == trim(text(doc, element))
        lower_text == to_lowercase(item_text)
    IN /\ ~is_skippable(doc, element)
       /\ item_text # <<>>
       /\ \A p \in cookie_banner_text : ~contains(lower_text, p)
       /\ ~is_json_like(item_text)
       /\ ~contains(lower_text, "permissionshash")
       /\ ~(/\ 10 * link_text_len(doc, element) > 8 * ByteLen(item_text)
            /\ Len(split_whitespace(item_text)) < 10)

extract_lists(doc, main) ==
    LET Kept(el) == ListItemKept(doc, el)
        kept == SelectSeq(select(doc, main, {"li"}), Kept)
    IN [k \in 1..Len(kept) |-> trim(text(doc, kept[k]))]

-----------------------------------------------------------------------------
(* Crawler::scrape_page from the parsed document on, over documents made    *)
(* of a few blocks in a container                                          *)

\* largest number of blocks in a document
MaxBlocks == 3

\* a block: its nodes, with parents counted inside the block and 0 for the
\* container of the block; no two blocks share a word
Blocks ==
    { << Element("h1", "", 0), TextNode(<<"Courses">>, 1) >>,
      << Element("h1", "", 0), TextNode(<<"Research">>, 1) >>,
      << Element("h2", "", 0), TextNode(<<"Fees">>, 1) >>,
      << Element("h3", "", 0), TextNode(<<"Term", " ", "dates">>, 1) >>,
      << Element("h2", "", 0), TextNode(<<"Main", " ", "Menu">>, 1) >>,
      << Element("h2", "", 0), Element("a", "", 1), TextNode(<<"Home">>, 2) >>,
      << Element("nav", "", 0), Element("h1", "", 1), TextNode(<<"Sections">>, 2) >>,
      << Element("p", "", 0), TextNode(<<" ", "Welcome", " ", "all", " ">>, 1) >>,
      << Element("p", "", 0), TextNode(<<"Visit">>, 1), Element("script", "", 1),
         TextNode(<<"track()">>, 3) >>,
      << Element("form", "", 0), Element("p", "", 1), TextNode(<<"Apply">>, 2) >>,
      << Element("ul", "", 0), Element("li", "", 1), TextNode(<<"Parking">>, 2),
         Element("li", "", 1), Element("a", "", 4), TextNode(<<"More">>, 5) >>,
      << Element("div", ".sidebar", 0), Element("ul", "", 1), Element("li", "", 2),
         TextNode(<<"Related">>, 3) >>,
      << Element("script", "", 0), TextNode(<<"{", "id", "}">>, 1) >>,
      << Element("div", "", 0),
         TextNode(<<"cookies we use cookies to help our site work">>, 1) >> }

\* the elements that contain the blocks, the last of them being their
\* container: the root alone, a main element, a main element in a header
Containers ==
    { << Element("html", "", 0) >>,
      << Element("html", "", 0), Element("main", "", 1) >>,
      << Element("html", "", 0), Element("header", "", 1), Element("main", "", 2) >> }

\* the nodes of a block placed after `before` nodes, in the container
Placed(block, container, before) ==
    [i \in 1..Len(block) |->
        [block[i] EXCEPT !.parent = IF block[i].parent = 0 THEN container
                                    ELSE block[i].parent + before]]

RECURSIVE BlockSeqs(_)
BlockSeqs(n) ==
    IF n = 0 THEN {<<>>}
    ELSE BlockSeqs(n - 1)
           \cup {Append(bs, b) : bs \in {c \in BlockSeqs(n - 1) : Len(c) = n - 1},
                                 b \in Blocks}

RECURSIVE Assemble(_, _, _)
Assemble(nodes, container, blocks) ==
    IF blocks = <<>> THEN nodes
    ELSE Assemble(nodes \o Placed(blocks[1], container, Len(nodes)), container,
                  Tail(blocks))

Documents ==
    {Assemble(c, Len(c), bs) :
        c \in Containers,
        bs \in {b \in BlockSeqs(MaxBlocks) : \A i, j \in 1..Len(b) : i # j => b[i] # b[j]}}

\* line 221
FindMainContentElement ==
    /\ epc = "idle"
    /\ main_content_element' = find_main_content_element(document)
    /\ epc' = "main"
    /\ UNCHANGED <<document, headings, paragraphs, lists, page_text,
                   crawlVars, chunkVars, filterVars>>

\* line 223
ExtractHeadings ==
    /\ epc = "main"
    /\ headings' = extract_headings(document, main_content_element)
    /\ epc' = "headings"
    /\ UNCHANGED <<document, main_content_element, paragraphs, lists, page_text,
                   crawlVars, chunkVars, filterVars>>

\* line 224
ExtractParagraphs ==
    /\ epc = "headings"
    /\ paragraphs' = extract_paragraphs(document, main_content_element)
    /\ epc' = "paragraphs"
    /\ UNCHANGED <<document, main_content_element, headings, lists, page_text,
                   crawlVars, chunkVars, filterVars>>

\* line 225
ExtractLists ==
    /\ epc = "paragraphs"
    /\ lists' = extract_lists(document, main_content_element)
    /\ epc' = "lists"
    /\ UNCHANGED <<document, main_content_element, headings, paragraphs, page_text,
                   crawlVars, chunkVars, filterVars>>

\* line 228
BuildFullText ==
    /\ epc = "lists"
    /\ page_text' = build_full_text(document, main_content_element)
    /\ epc' = "done"
    /\ UNCHANGED <<document, main_content_element, headings, paragraphs, lists,
                   crawlVars, chunkVars, filterVars>>

ExtractInit ==
    /\ document \in Documents
    /\ main_content_element = 0
    /\ headings = <<>>
    /\ paragraphs = <<>>
    /\ lists = <<>>
    /\ page_text = <<>>
    /\ epc = "idle"
    /\ CrawlIdle
    /\ ChunkIdle
    /\ FilterIdle

ExtractNext ==
    \/ FindMainContentElement
    \/ ExtractHeadings
    \/ ExtractParagraphs
    \/ ExtractLists
    \/ BuildFullText

ExtractSpec == ExtractInit /\ [][ExtractNext]_vars

-----------------------------------------------------------------------------
(* Properties of the crawl                                                 *)

IsEmptyContent(c) == c.full_text = "" /\ c.paragraphs = <<>> /\ c.headings = <<>>

RecordsOf(url) == {i \in DOMAIN pages : pages[i].url = url}

\* the step issues a GET with this outcome
Fetches(result) ==
    /\ Len(requests') = Len(requests) + 1
    /\ requests'[Len(requests')].result = result

\* the link the running invocation has just dealt with leads to target
JustExamined(target) ==
    /\ ~call.some
    /\ stack # <<>>
    /\ Running(stack).i > 1
    /\ LET link == Running(stack).links[Running(stack).i - 1]
       IN /\ link.link_type = "Internal"
          /\ filter_url(Running(stack).url, link.href) = Some(target)

\* C1: every URL is fetched at most once: a URL is in the visited set from the
\* step that fetches it, nothing leaves the visited set, and a call for a
\* visited URL issues no request.
C1_FetchedAtMostOnce ==
    /\ [](\A j, k \in DOMAIN requests : requests[j].url = requests[k].url => j = k)
    /\ [](\A k \in DOMAIN requests : requests[k].url \in visited)
    /\ [][visited \subseteq visited']_vars
    /\ [][(call.some /\ call.val.url \in visited) => requests' = requests]_vars

\* a link to a URL fetched earlier, from another page, has been passed over
C1_Witness ==
    \E k \in DOMAIN requests :
        /\ JustExamined(requests[k].url)
        /\ requests[k].from # Running(stack).url
        /\ requests[k].url \in visited

\* C2 as stated: every record of the page list has full text, a paragraph or a
\* heading.
C2_EveryRecordHasContent ==
    \A i \in DOMAIN pages : ~IsEmptyContent(pages[i].content)

\* C2 as amended: the record of a page whose fetch succeeded has full text, a
\* paragraph or a heading, a fetched page without any of them has no record,
\* and the record of a failed fetch is the placeholder, with none of them.
C2_FetchedRecordsHaveContent ==
    \A k \in DOMAIN requests :
        /\ requests[k].result = "kept" =>
              \A i \in RecordsOf(requests[k].url) : ~IsEmptyContent(pages[i].content)
        /\ requests[k].result = "empty" => RecordsOf(requests[k].url) = {}
        /\ requests[k].result = "err" =>
              \A i \in RecordsOf(requests[k].url) :
                  /\ pages[i].title = "Failed to crawl"
                  /\ IsEmptyContent(pages[i].content)

\* a placeholder and a page kept for its heading alone are both in the list
C2_Witness ==
    /\ \E i \in DOMAIN pages : pages[i].title = "Failed to crawl"
    /\ \E i \in DOMAIN pages :
          /\ pages[i].content.headings # <<>>
          /\ pages[i].content.full_text = ""
          /\ pages[i].content.paragraphs = <<>>
    /\ \E k \in DOMAIN requests : requests[k].result = "empty"

\* C3: a call with depth >= max_depth or with a visited URL returns at once and
\* changes nothing: no request, no record, the visited set as it was.
C3_ReturnAtOnceChangesNothing ==
    [][(call.some /\ (call.val.depth >= max_depth \/ call.val.url \in visited)) =>
          /\ ~call'.some
          /\ requests' = requests
          /\ pages' = pages
          /\ visited' = visited
          /\ stack' = stack]_vars

\* a call made for a link has returned and its URL is still not visited
C3_Witness ==
    \E target \in {U(<<"/a">>), U(<<"/b">>), U(<<"/c">>), U(<<"/d">>)} :
        /\ JustExamined(target)
        /\ target \notin visited
        /\ Running(stack).depth + 1 >= max_depth

\* C4: a failed fetch appends exactly the placeholder record, starts no call
\* and leaves the suspended invocations as they are; the URL has that one
\* record and nothing is ever fetched from it.
C4_FetchFailure ==
    /\ [][Fetches("err") =>
             /\ call.some
             /\ pages' = Append(pages,
                   [url |-> call.val.url, title |-> "Failed to crawl",
                    content |-> [full_text |-> "", headings |-> <<>>,
                                 paragraphs |-> <<>>],
                    metadata |-> [depth |-> call.val.depth,
                                  description |-> Some("Error")],
                    links |-> <<>>])
             /\ ~call'.some
             /\ stack' = stack
             /\ pc' = pc]_vars
    /\ [](\A k \in DOMAIN requests : requests[k].result = "err" =>
             /\ Cardinality(RecordsOf(requests[k].url)) = 1
             /\ \A j \in DOMAIN requests : requests[j].from # requests[k].url
             /\ \A n \in DOMAIN stack : stack[n].url # requests[k].url)

\* after a failed fetch the page that linked to it went on to its next links
C4_Witness ==
    \E k \in DOMAIN requests :
        /\ requests[k].result = "err"
        /\ k < Len(requests)
        /\ requests[k + 1].from = requests[k].from
        /\ requests[k + 1].depth = requests[k].depth

\* C5: a fetched page without content gets no record and none of its links is
\* followed, and its URL stays visited, so it is not fetched again.
C5_EmptyPageDiscarded ==
    /\ [][Fetches("empty") =>
             /\ call.some
             /\ pages' = pages
             /\ stack' = stack
             /\ ~call'.some
             /\ call.val.url \in visited']_vars
    /\ [][visited \subseteq visited']_vars
    /\ [](\A k \in DOMAIN requests : requests[k].result = "empty" =>
             /\ RecordsOf(requests[k].url) = {}
             /\ requests[k].url \in visited
             /\ \A j \in DOMAIN requests :
                   /\ requests[j].from # requests[k].url
                   /\ requests[j].url = requests[k].url => j = k)

\* a discarded page had links that lead to pages not yet fetched, and a link
\* to it from a page fetched later has been passed over
C5_Witness ==
    \E k \in DOMAIN requests :
        /\ requests[k].result = "empty"
        /\ requests[k].expandable
        /\ JustExamined(requests[k].url)
        /\ \E j \in DOMAIN requests :
              j > k /\ requests[j].url = Running(stack).url

\* index of the first link of page record p that leads to target, 0 if none
FirstLinkTo(p, target) ==
    LET hits == {l \in DOMAIN p.links :
                    /\ p.links[l].link_type = "Internal"
                    /\ filter_url(p.url, p.links[l].href) = Some(target)}
    IN IF hits = {} THEN 0 ELSE CHOOSE l \in hits : \A m \in hits : l <= m

\* C6: the first fetch is the root at depth 0; any other URL is fetched at
\* depth d+1 only through an Internal link, accepted by the canonicalizer, of
\* a kept page fetched before at depth d, and was not visited when the call
\* for it was made.
C6_FetchedOnlyThroughKeptPages ==
    /\ [](\A k \in DOMAIN requests :
             IF k = 1 THEN requests[k].url = root_url /\ requests[k].depth = 0
             ELSE \E i \in DOMAIN pages :
                     /\ pages[i].title # "Failed to crawl"
                     /\ ~IsEmptyContent(pages[i].content)
                     /\ pages[i].metadata.depth + 1 = requests[k].depth
                     /\ \E j \in 1..(k - 1) :
                           /\ requests[j].url = pages[i].url
                           /\ requests[j].result = "kept"
                     /\ FirstLinkTo(pages[i], requests[k].url) # 0)
    /\ [][(call'.some /\ call' # call) => call'.val.url \notin visited]_vars

\* a page at depth 2 is fetched through a link with a tracking parameter,
\* while External, Anchor and rejected links of the root led to no fetch
C6_Witness ==
    /\ site = SiteMixed
    /\ \E k \in DOMAIN requests :
          /\ requests[k].url = U(<<"/b">>)
          /\ requests[k].depth = 2
    /\ pc = "done"

\* the request that precedes request k most closely at one depth less
ParentOf(k) ==
    LET above == {j \in 1..(k - 1) : requests[j].depth = requests[k].depth - 1}
    IN IF above = {} THEN 0 ELSE CHOOSE j \in above : \A m \in above : m <= j

\* C7: the traversal is depth-first in link order: the records are in the
\* order of the fetches, every page other than the root is fetched through a
\* link of the page fetched most recently at one depth less, which is kept,
\* and pages fetched through links of the same page are fetched in the order
\* of those links.
C7_DepthFirstPreOrder ==
    /\ LET recorded == SelectSeq2(requests,
                          [k \in DOMAIN requests |-> requests[k].result # "empty"])
       IN /\ Len(pages) = Len(recorded)
          /\ \A i \in DOMAIN pages : pages[i].url = recorded[i].url
    /\ \A k \in DOMAIN requests : k > 1 =>
          /\ ParentOf(k) # 0
          /\ requests[ParentOf(k)].result = "kept"
          /\ \E i \in DOMAIN pages :
                /\ pages[i].url = requests[ParentOf(k)].url
                /\ FirstLinkTo(pages[i], requests[k].url) # 0
                /\ \A j \in (ParentOf(k) + 1)..(k - 1) :
                      (requests[j].depth = requests[k].depth) =>
                          /\ FirstLinkTo(pages[i], requests[j].url) # 0
                          /\ FirstLinkTo(pages[i], requests[j].url)
                                < FirstLinkTo(pages[i], requests[k].url)

\* the tree site crawled in full: the page under the first link of the root
\* is fetched between the first two pages the root links to
C7_Witness ==
    /\ site = SiteTree
    /\ pc = "done"
    /\ Len(pages) >= 5
    /\ pages[2].url = U(<<"/a">>)
    /\ pages[3].url = U(<<"/d">>)
    /\ pages[4].url = U(<<"/b">>)

-----------------------------------------------------------------------------
(* Properties of create_chunks                                             *)

HasSentence(t) == \E p \in DOMAIN t.bytes : ByteAt(t, p) = "." /\ ByteAt(t, p + 1) = " "

\* C8: the empty text gives no chunk, and a non-empty text shorter than the
\* chunk size gives exactly one chunk, [0, length).
C8_ShortTextOneChunk ==
    cpc = "done" =>
        /\ full_text.len = 0 => chunks = <<>>
        /\ (0 < full_text.len /\ full_text.len < CHUNK_SIZE) =>
              /\ Len(chunks) = 1
              /\ chunks[1].char_start = 0
              /\ chunks[1].char_end = full_text.len

\* C9: a text of 2200 bytes without ". " gives exactly 3 chunks, starting at 0,
\* 800 and 1600, the last one ending at 2200.
C9_ThreeChunksOf2200 ==
    (cpc = "done" /\ full_text.len = 2200 /\ ~HasSentence(full_text)) =>
        /\ Len(chunks) = 3
        /\ chunks[1].char_start = 0
        /\ chunks[2].char_start = 800
        /\ chunks[3].char_start = 1600
        /\ chunks[3].char_end = 2200

\* C10: for a non-empty text the last chunk returned ends at the length of
\* the text.
C10_LastChunkReachesEnd ==
    (cpc = "done" /\ full_text.len > 0) =>
        /\ chunks # <<>>
        /\ chunks[Len(chunks)].char_end = full_text.len

\* a text of several chunks, one of them cut short at a sentence end, has
\* been chunked to its end
C10_Witness ==
    /\ cpc = "done"
    /\ full_text.len > CHUNK_SIZE
    /\ Len(chunks) >= 3
    /\ \E i \in DOMAIN chunks :
          /\ chunks[i].char_end < full_text.len
          /\ chunks[i].char_end - chunks[i].char_start <= OVERLAP
    /\ chunks[Len(chunks)].char_end = full_text.len


\* C11: every chunk has char_end > char_start, and the chunks are in strictly
\* increasing order of char_start.
C11_ChunksOrdered ==
    /\ \A i \in DOMAIN chunks : chunks[i].char_end > chunks[i].char_start
    /\ \A i, j \in DOMAIN chunks : i < j => chunks[i].char_start < chunks[j].char_start

\* a text has been cut into four chunks or more, one of them no longer than
\* the overlap
C11_Witness ==
    /\ cpc = "done"
    /\ Len(chunks) >= 4
    /\ \E i \in DOMAIN chunks : chunks[i].char_end - chunks[i].char_start <= OVERLAP

\* C12 as stated: every chunk after the first starts exactly OVERLAP before the
\* end of the chunk before it, so that the first chunk followed by what each
\* later chunk holds past its first OVERLAP bytes is the text, each byte once.
C12_OverlapIsExact ==
    (cpc = "done" /\ full_text.len > 0) =>
        /\ chunks # <<>>
        /\ chunks[1].char_start = 0
        /\ \A i \in DOMAIN chunks : i > 1 =>
              /\ chunks[i].char_start = chunks[i - 1].char_end - OVERLAP
              /\ chunks[i].char_start + OVERLAP <= chunks[i].char_end
        /\ chunks[Len(chunks)].char_end = full_text.len

\* C12 as amended: the first chunk starts at 0, every chunk after the first
\* starts at most OVERLAP before the end of the chunk before it and never
\* after it (at the first character boundary from OVERLAP before that end on
\* when the chunk before it is longer than OVERLAP, and at that end
\* otherwise), and ends no earlier, and the last chunk ends at the length of
\* the text: the first chunk followed by what each later chunk holds past the
\* end of the chunk before it is the text, each byte once.
C12_ChunksTileText ==
    (cpc = "done" /\ full_text.len > 0) =>
        /\ chunks # <<>>
        /\ chunks[1].char_start = 0
        /\ \A i \in DOMAIN chunks : i > 1 =>
              /\ chunks[i].char_start <= chunks[i - 1].char_end
              /\ chunks[i].char_start + OVERLAP >= chunks[i - 1].char_end
              /\ chunks[i].char_start =
                    IF chunks[i - 1].char_end - chunks[i - 1].char_start > OVERLAP
                    THEN NextBoundary(full_text, chunks[i - 1].char_end - OVERLAP)
                    ELSE chunks[i - 1].char_end
              /\ chunks[i].char_end >= chunks[i - 1].char_end
        /\ chunks[Len(chunks)].char_end = full_text.len

\* a chunk follows a chunk no longer than the overlap without overlapping it,
\* and another starts less than OVERLAP before the end of the one before it
C12_Witness ==
    /\ cpc = "done"
    /\ \E i \in DOMAIN chunks :
          i > 1 /\ chunks[i].char_start = chunks[i - 1].char_end
    /\ \E i \in DOMAIN chunks :
          /\ i > 1
          /\ chunks[i].char_start < chunks[i - 1].char_end
          /\ chunks[i].char_start + OVERLAP > chunks[i - 1].char_end

\* C18: create_chunks terminates: an iteration that does not leave the loop
\* moves the cursor forward, to chunk_end - OVERLAP when that is beyond the
\* start of the chunk and to chunk_end otherwise, and never past the end of
\* the text.
C18_CursorAdvancesAndLoopEnds ==
    /\ [][(cpc = "loop" /\ cpc' = "loop") =>
             /\ current_byte_start' > current_byte_start
             /\ current_byte_start' <= full_text.len
             /\ Len(chunks') = Len(chunks) + 1
             /\ LET c == chunks'[Len(chunks')]
                IN current_byte_start' =
                      IF c.char_end - OVERLAP > c.char_start
                      THEN c.char_end - OVERLAP ELSE c.char_end]_vars
    /\ [](current_byte_start <= full_text.len)
    /\ <>(cpc = "done")

\* the loop is over after iterations of both kinds
C18_Witness ==
    /\ cpc = "done"
    /\ current_byte_start = full_text.len
    /\ \E i \in DOMAIN chunks :
          i > 1 /\ chunks[i].char_start = chunks[i - 1].char_end
    /\ \E i \in DOMAIN chunks :
          i > 1 /\ chunks[i].char_start = chunks[i - 1].char_end - OVERLAP

\* offsets of the ". " that lie in text[from..to]
SentencesIn(t, from, to) ==
    {p \in from..(to - 2) : p \in DOMAIN t.bytes /\ t.bytes[p] = "."
                               /\ ByteAt(t, p + 1) = " "}

EndsAfterLastSentence(c, from, to) ==
    IF SentencesIn(full_text, from, to) = {} THEN c.char_end = TargetEnd(full_text, c.char_start)
    ELSE \E p \in SentencesIn(full_text, from, to) :
            /\ \A q \in SentencesIn(full_text, from, to) : q <= p
            /\ c.char_end = p + 2

\* C19 as stated: a chunk whose target end is before the end of the text ends
\* just after the last ". " that lies between the target end and the search
\* limit, and at the target end when there is none there.
C19_SnapsInLookaheadWindow ==
    \A i \in DOMAIN chunks :
        LET target_end == TargetEnd(full_text, chunks[i].char_start)
        IN target_end < full_text.len =>
              EndsAfterLastSentence(chunks[i], target_end,
                                    SentenceSearchLimit(full_text, target_end))

\* C19 as amended: such a chunk ends just after the last ". " that lies between
\* the start of the chunk and the search limit, and at the target end when
\* there is none there.
C19_SnapsToLastSentenceOfSlice ==
    \A i \in DOMAIN chunks :
        LET target_end == TargetEnd(full_text, chunks[i].char_start)
        IN target_end < full_text.len =>
              EndsAfterLastSentence(chunks[i], chunks[i].char_start,
                                    SentenceSearchLimit(full_text, target_end))

\* a chunk ends after the second of two ". ", before its target end, and
\* another one at its target end
C19_Witness ==
    /\ \E i \in DOMAIN chunks :
          /\ TargetEnd(full_text, chunks[i].char_start) < full_text.len
          /\ chunks[i].char_end < TargetEnd(full_text, chunks[i].char_start)
          /\ Cardinality(SentencesIn(full_text, chunks[i].char_start,
                                     chunks[i].char_end)) = 2
    /\ \E i \in DOMAIN chunks :
          /\ TargetEnd(full_text, chunks[i].char_start) < full_text.len
          /\ chunks[i].char_end = TargetEnd(full_text, chunks[i].char_start)

\* C20: every offset at which create_chunks slices the text, and every
\* char_start and char_end, is a character boundary.
C20_SlicesOnCharBoundaries ==
    /\ \A i \in DOMAIN chunks :
          /\ is_char_boundary(full_text, chunks[i].char_start)
          /\ is_char_boundary(full_text, chunks[i].char_end)
          /\ ByteAt(full_text, chunks[i].char_start) # "c"
          /\ chunks[i].char_end <= full_text.len
    /\ (cpc = "loop" /\ NextBoundary(full_text, current_byte_start) < full_text.len) =>
          LET start == NextBoundary(full_text, current_byte_start)
              limit == SentenceSearchLimit(full_text, TargetEnd(full_text, start))
          IN /\ ByteAt(full_text, start) # "c"
             /\ limit = full_text.len \/ ByteAt(full_text, limit) # "c"
             /\ LET chunk_end == ChunkEnd(full_text, start, TargetEnd(full_text, start))
                IN chunk_end = full_text.len \/ ByteAt(full_text, chunk_end) # "c"

\* the overlap point and the target end of a chunk both fell inside a
\* three-byte character
C20_Witness ==
    /\ cpc = "done"
    /\ \E i \in DOMAIN chunks :
          /\ i > 1
          /\ chunks[i].char_start > chunks[i - 1].char_end - OVERLAP
          /\ chunks[i].char_start < chunks[i - 1].char_end
          /\ ByteAt(full_text, chunks[i].char_start - 1) = "c"
    /\ \E i \in DOMAIN chunks :
          /\ chunks[i].char_end - chunks[i].char_start > CHUNK_SIZE
          /\ ByteAt(full_text, chunks[i].char_end - 1) = "c"


-----------------------------------------------------------------------------
(* Properties of filter_url                                                *)

\* the URL that filter_url's href resolves to against its base
ResolvedLink == url_join(url_parse(page_url), link_href)

NotTracking(pairs) == [i \in 1..Len(pairs) |-> ~IsTrackingKey(pairs[i].key)]

\* C15: filter_url applied to a URL that it returned, against any base of the
\* crawl domain, returns that URL again.
C15_FilterUrlIdempotent ==
    fpc = "reapplied" => recanonical = canonical

\* C16: a URL that filter_url returns has no fragment and no utm_*, fbclid or
\* gclid parameter, and its parameters are the other parameters of the
\* resolved URL, with their keys and values, in their order; it has no query
\* when there are none.
C16_KeepsOtherParameters ==
    (fpc = "returned" /\ canonical.some) =>
        LET u == url_parse(canonical.val)
            wanted == SelectSeq2(query_pairs(ResolvedLink),
                                 NotTracking(query_pairs(ResolvedLink)))
        IN /\ u.ok
           /\ ~u.fragment.some
           /\ \A i \in DOMAIN query_pairs(u) : ~IsTrackingKey(query_pairs(u)[i].key)
           /\ query_pairs(u) = wanted
           /\ wanted = <<>> => ~u.query.some

\* C17: filter_url returns none for an href that ends with a banned extension
\* or has one followed by '?', whatever the case of its letters, that starts
\* with '#', mailto:, tel:, javascript: or data:, whatever the case, that is
\* /cookies or /cookie-policy, that cannot be resolved against the base URL, or
\* that resolves to a host other than the crawl domain; the host of a URL it
\* returns is the crawl domain.
C17_RejectsAndStaysOnDomain ==
    fpc = "returned" =>
        LET lower == to_lowercase(link_href)
        IN /\ ( \/ lower # <<>> /\ lower[Len(lower)] \in banned_extensions
                \/ \E i \in 1..(Len(lower) - 1) :
                      lower[i] \in banned_extensions /\ lower[i + 1] = "?"
                \/ lower # <<>> /\ lower[1] \in {"#", "mailto:", "tel:", "javascript:",
                                                 "data:"}
                \/ link_href \in {<<"/cookies">>, <<"/cookie-policy">>}
                \/ ~url_parse(page_url).ok
                \/ ~ResolvedLink.ok
                \/ ResolvedLink.host # Some("www.surrey.ac.uk") )
              => canonical = None
           /\ canonical.some =>
                 /\ url_parse(canonical.val).ok
                 /\ url_parse(canonical.val).host = Some("www.surrey.ac.uk")
                 /\ domain = "www.surrey.ac.uk"

\* an href of the crawl domain with an upper-case banned extension before its
\* query, and nothing else against it, was rejected
C17_Witness ==
    /\ fpc = "returned"
    /\ canonical = None
    /\ SameDomain(page_url)
    /\ link_href = <<"/a", ".Js", "?", "id", "=", "1">>


-----------------------------------------------------------------------------
(* Properties of the extraction                                            *)

\* the headings that extract_headings keeps, in document order
KeptHeadings(level) ==
    LET Kept(el) == HeadingKept(document, el)
    IN SelectSeq(select(document, main_content_element, {HeadingTag(level)}), Kept)

\* the text of the last of the elements that precedes node el, none if none does
NearestBefore(elements, el) ==
    LET before == {k \in 1..Len(elements) : elements[k] < el}
    IN IF before = {} THEN None
       ELSE Some(trim(text(document, elements[CHOOSE k \in before :
                                                  \A j \in before : j <= k])))

\* what the claim says of the heading element el of a level
HeadingAsClaimed(level, el) ==
    [level |-> level, text |-> trim(text(document, el)),
     parent_heading |-> IF level = 2 THEN NearestBefore(KeptHeadings(1), el)
                        ELSE IF level >= 3 THEN NearestBefore(KeptHeadings(2), el)
                        ELSE None]

\* C13: the parent_heading of a level-2 heading is the text of the nearest kept
\* level-1 heading before it in document order, none when there is none, that
\* of a heading of level 3 to 6 is the text of the nearest kept level-2 heading
\* before it, and a level-1 heading has none.
C13_ParentIsNearestPreceding ==
    epc = "done" =>
        headings = Concat([level \in 1..6 |->
                       [k \in 1..Len(KeptHeadings(level)) |->
                           HeadingAsClaimed(level, KeptHeadings(level)[k])]])

\* the nodes that are, or are below, an element that matches the always-remove
\* selector or a boilerplate selector
Removed(doc) ==
    {n \in 1..Len(doc) :
        \E e \in 1..Len(doc) :
            /\ IsElement(doc, e)
            /\ InSubtree(doc, e, n)
            /\ MatchesAlwaysRemove(doc, e) \/ MatchesBoilerplate(doc, e)}

WordsOf(s) == {s[i] : i \in 1..Len(s)} \ {" "}

\* the words of everything extracted
ExtractedWords ==
    WordsOf(page_text)
        \cup UNION {WordsOf(headings[k].text) : k \in 1..Len(headings)}
        \cup UNION {WordsOf(paragraphs[k]) : k \in 1..Len(paragraphs)}
        \cup UNION {WordsOf(lists[k]) : k \in 1..Len(lists)}

\* C14: nothing of an element that matches the always-remove selector, or that
\* matches a boilerplate selector or has an ancestor that does, and nothing
\* below such an element, is in the full text, the headings, the paragraphs or
\* the list items.
C14_RemovedSubtreesContributeNothing ==
    epc = "done" =>
        \A n \in Removed(document) :
            ~IsElement(document, n) => WordsOf(document[n].text) \cap ExtractedWords = {}


-----------------------------------------------------------------------------
(* Properties of the visited set and of the page list                      *)

\* the URL without its fragment and its tracking parameters
LogicalPage(url) ==
    LET u == url_parse(url)
        pairs == query_pairs(u)
    IN [origin |-> u.origin, path |-> u.path,
        pairs |-> SelectSeq2(pairs, [i \in 1..Len(pairs) |-> ~IsTrackingKey(pairs[i].key)])]

\* C21: every URL of the visited set, the root URL included, has the crawl
\* domain as its host, no fragment and no utm_*, fbclid or gclid parameter, and
\* no two visited URLs differ only by a fragment or by tracking parameters.
C21_VisitedUrlsAreCanonical ==
    /\ \A url \in visited :
          /\ url_parse(url).ok
          /\ url_parse(url).host = Some(domain)
          /\ ~url_parse(url).fragment.some
          /\ \A i \in DOMAIN query_pairs(url_parse(url)) :
                ~IsTrackingKey(query_pairs(url_parse(url))[i].key)
    /\ \A url, other \in visited : LogicalPage(url) = LogicalPage(other) => url = other


\* C22: the crawl terminates, the crawl calls that have performed a fetch or
\* are about to and have not returned are never more than max_depth, and the
\* depth d of every record is such that 0 <= d < max_depth.
C22_TerminatesWithinDepth ==
    /\ <>(pc = "done")
    /\ [](Len(stack) + (IF call.some /\ ~ReturnsAtOnce(call.val.url, call.val.depth)
                        THEN 1 ELSE 0) <= max_depth)
    /\ [](\A k \in DOMAIN stack : stack[k].depth = k - 1)
    /\ [](\A k \in DOMAIN pages :
             0 <= pages[k].metadata.depth /\ pages[k].metadata.depth < max_depth)

\* the crawl of the site with a cycle and self links is over and has a record
\* of the largest depth there can be
C22_Witness ==
    /\ pc = "done"
    /\ site = SiteCycle
    /\ max_depth >= 3
    /\ \E k \in DOMAIN pages : pages[k].metadata.depth = max_depth - 1


\* C23: the recorded depth of a page is that of the call that fetched it: 0 for
\* the root and otherwise 1 + the recorded depth of the kept page whose link
\* loop made that call; a call for a URL that has been fetched, whatever its
\* depth, fetches nothing, appends and changes no record and starts no link
\* loop, and no step changes the depth of a record.
C23_DepthFixedByFirstFetch ==
    /\ [](\A k \in DOMAIN requests :
             /\ \A i \in RecordsOf(requests[k].url) :
                   pages[i].metadata.depth = requests[k].depth
             /\ IF k = 1 THEN requests[k].url = root_url /\ requests[k].depth = 0
                ELSE \E j \in 1..(k - 1) :
                        /\ requests[j].url = requests[k].from
                        /\ requests[j].result = "kept"
                        /\ requests[k].depth = 1 + requests[j].depth
                        /\ \E i \in RecordsOf(requests[j].url) :
                              /\ requests[k].depth = 1 + pages[i].metadata.depth
                              /\ FirstLinkTo(pages[i], requests[k].url) # 0)
    /\ [][\A k \in DOMAIN requests :
             (call.some /\ call.val.url = requests[k].url) =>
                 /\ requests' = requests
                 /\ pages' = pages
                 /\ stack' = stack
                 /\ ~call'.some]_vars
    /\ [][\A i \in DOMAIN pages :
             /\ i \in DOMAIN pages'
             /\ pages'[i].url = pages[i].url
             /\ pages'[i].metadata.depth = pages[i].metadata.depth]_vars

\* a kept page with links, fetched at depth 2, has been found again through a
\* link of the root, where its depth would be 1, and the crawl has gone on
C23_Witness ==
    \E k \in DOMAIN requests :
        /\ requests[k].depth = 2
        /\ requests[k].result = "kept"
        /\ JustExamined(requests[k].url)
        /\ Running(stack).depth = 0
        /\ \E i \in RecordsOf(requests[k].url) :
              pages[i].metadata.depth = 2 /\ pages[i].links # <<>>


\* C24: the page list only grows at its end, by the one record of a fetch
\* attempt at most; the records already in it keep their place and their
\* contents; the records have pairwise distinct URLs, all of them fetched and
\* in the visited set; and the output written at the end has the page list
\* and its length as total_pages.
C24_PageListAppendOnly ==
    /\ [][/\ Len(pages') \in {Len(pages), Len(pages) + 1}
          /\ SubSeq(pages', 1, Len(pages)) = pages
          /\ pages' # pages =>
                /\ call.some
                /\ Len(requests') = Len(requests) + 1
                /\ pages'[Len(pages')].url = call.val.url]_vars
    /\ [](\A i, j \in DOMAIN pages : pages[i].url = pages[j].url => i = j)
    /\ [](\A i \in DOMAIN pages :
             /\ pages[i].url \in visited
             /\ \E k \in DOMAIN requests : requests[k].url = pages[i].url)
    /\ [](Len(pages) <= Len(requests))
    /\ [](output.some =>
             /\ pc = "done"
             /\ output.val.total_pages = Len(pages)
             /\ output.val.pages = pages)

\* the output is written after a crawl with kept pages, a failed fetch and a
\* dropped page: fewer records than fetches
C24_Witness ==
    /\ pc = "done"
    /\ output.some
    /\ output.val.total_pages >= 3
    /\ \E k \in DOMAIN requests : requests[k].result = "err"
    /\ \E k \in DOMAIN requests : requests[k].result = "empty"
    /\ \E k \in DOMAIN requests : requests[k].result = "kept" /\ requests[k].depth >= 1

====
